---------------------------- MODULE Spec2Model ----------------------------
(***************************************************************************)
(* A model of ws_ohlc_simulator.js: the in-memory instrument table, the    *)
(* per-socket subscription registry and rate window, the market-hours gate *)
(* and the timer-driven broadcast loop.                                    *)
(*                                                                         *)
(* Prices are held in units of 1e-4 (the code rounds every price it        *)
(* computes with toFixed(4)); instants are milliseconds since 00:00 UTC of *)
(* the modelled day.                                                       *)
(***************************************************************************)
EXTENDS Integers, Sequences, FiniteSets, TLC

VARIABLES
    now,          \* the wall clock read by Date.now() / new Date()
    zone,         \* the host's time zone (what getTimezoneOffset/getHours use)
    instruments,  \* the instrument table, symbol -> state
    sockets,      \* io.sockets.sockets: live socket id -> socket.meta
    started,      \* the listen callback has run startSimulation()
    timerDue,     \* the instant the pending setTimeout(tick, ..) is due
    nticks,       \* timer firings so far (capped by MaxTicks)
    nevents,      \* client events so far (capped by MaxEvents)
    ev,           \* the handler that ran last: [op, conn, arg]
    emitted,      \* what that handler emitted: sequence of [to, event, body]
    cycle,        \* what the last step did when it was a tick
    uncaught,     \* the exception that escaped a handler, "none" if none
    hist          \* observation of allowSendRate calls (rate specification)

vars == <<now, zone, instruments, sockets, started, timerDue, nticks, nevents,
          ev, emitted, cycle, uncaught, hist>>

---------------------------------------------------------------------------
(* Program constants *)

BROADCAST_INTERVAL_MS == 800
MAX_RATE_PER_SECOND == 50
IST_OFFSET_MINUTES == 330
RATE_WINDOW_MS == 1000
CLOSED_POLL_MS == 30000
MS_PER_MINUTE == 60000
MINUTES_PER_DAY == 24 * 60
OPEN_FROM_MINUTE == 10 * 60
OPEN_UNTIL_MINUTE == 19 * 60
PCT_SCALE == 10000
MIN_COUNT == 3

\* BASE_OHLC, prices in 1e-4
BASE_OHLC ==
    [AAPL |-> [open |-> 2285000, high |-> 2324000, low |-> 2279000, close |-> 2318500, volume |-> 58200000],
     TSLA |-> [open |-> 4052000, high |-> 4101000, low |-> 4041000, close |-> 4093500, volume |-> 23400000],
     MSFT |-> [open |-> 1678000, high |-> 1702500, low |-> 1671000, close |-> 1699500, volume |-> 26800000],
     GOOG |-> [open |-> 1485000, high |-> 1523000, low |-> 1479000, close |-> 1517500, volume |-> 51200000],
     AMZN |-> [open |-> 12500000, high |-> 12864000, low |-> 12455000, close |-> 12807500, volume |-> 312500000],
     NVDA |-> [open |-> 4274000, high |-> 4322500, low |-> 4261000, close |-> 4311000, volume |-> 3900000],
     META |-> [open |-> 1728000, high |-> 1757500, low |-> 1722000, close |-> 1751000, volume |-> 12800000],
     NFLX |-> [open |-> 2441000, high |-> 2485500, low |-> 2432000, close |-> 2476000, volume |-> 7800000],
     JPM  |-> [open |-> 4102000, high |-> 4174000, low |-> 4098000, close |-> 4162500, volume |-> 3600000],
     BAC  |-> [open |-> 327000, high |-> 332500, low |-> 324000, close |-> 330500, volume |-> 42600000],
     INTC |-> [open |-> 2542000, high |-> 2618000, low |-> 2531000, close |-> 2597000, volume |-> 102000000],
     ORCL |-> [open |-> 1603000, high |-> 1636000, low |-> 1598500, close |-> 1627500, volume |-> 13200000],
     IBM  |-> [open |-> 1474000, high |-> 1498000, low |-> 1469000, close |-> 1491000, volume |-> 7500000],
     CSCO |-> [open |-> 584000, high |-> 596500, low |-> 581000, close |-> 592000, volume |-> 14500000],
     SAP  |-> [open |-> 1688000, high |-> 1719000, low |-> 1682000, close |-> 1712500, volume |-> 5850000],
     ADBE |-> [open |-> 1554000, high |-> 1578500, low |-> 1550000, close |-> 1571000, volume |-> 9200000],
     UBER |-> [open |-> 5251000, high |-> 5314000, low |-> 5238000, close |-> 5302000, volume |-> 3580000],
     LYFT |-> [open |-> 1037000, high |-> 1064000, low |-> 1031000, close |-> 1058500, volume |-> 11400000],
     SNAP |-> [open |-> 982000, high |-> 1008500, low |-> 978000, close |-> 1002500, volume |-> 8750000],
     TWTR |-> [open |-> 5954000, high |-> 6121000, low |-> 5943000, close |-> 6085000, volume |-> 5250000]]

\* Object.keys(instruments): the table's keys in insertion order
SymbolList ==
    <<"AAPL", "TSLA", "MSFT", "GOOG", "AMZN", "NVDA", "META", "NFLX", "JPM", "BAC",
      "INTC", "ORCL", "IBM", "CSCO", "SAP", "ADBE", "UBER", "LYFT", "SNAP", "TWTR">>

\* the known symbol universe
Symbols == DOMAIN BASE_OHLC

\* `instruments` is a plain object literal: a lookup instruments[k] also finds
\* what it inherits from Object.prototype.  These are inherited keys.
ProtoKeys == {"toString", "constructor", "__proto__", "hasOwnProperty", "valueOf"}

---------------------------------------------------------------------------
(* Bounds of the model and the inputs it draws *)

MaxTicks == 2
MaxEvents == 3

ConnIds == {"c1", "c2"}

Range(s) == {s[i] : i \in DOMAIN s}

---------------------------------------------------------------------------
(* Helpers *)

Abs(x) == IF x < 0 THEN 0 - x ELSE x

\* +(a / b).toFixed(0) for b > 0: the nearest integer, halves away from zero
RoundDiv(a, b) ==
    IF a >= 0 THEN (2 * a + b) \div (2 * b)
    ELSE 0 - ((2 * (0 - a) + b) \div (2 * b))

\* randPct(0.004), in units of 1e-4: (Math.random() * 2 - 1) * 0.004 lies
\* in [-0.004, 0.004)
PctChoices == {-40, 1, 39}

\* Math.floor(5000 + Math.random() * 20000) lies in 5000..24999
VolChoices == {5000, 24999}

\* the instrument table built at load, lines 46-59
SeedState(symbol, ts) ==
    [symbol      |-> symbol,
     open_price  |-> BASE_OHLC[symbol].open,
     high_price  |-> BASE_OHLC[symbol].high,
     low_price   |-> BASE_OHLC[symbol].low,
     close_price |-> BASE_OHLC[symbol].close,
     volume      |-> BASE_OHLC[symbol].volume,
     ts          |-> ts]

\* simulateTick without line 73, the update of the low
simulateTick_NoLow(state, pct, volInc, ts) ==
    LET newPrice == state.close_price + RoundDiv(state.close_price * pct, PCT_SCALE)
    IN  [state EXCEPT
           !.close_price = newPrice,
           !.high_price  = IF newPrice > state.high_price THEN newPrice ELSE state.high_price,
           !.volume      = state.volume + volInc,
           !.ts          = ts]

\* simulateTick(state) with its two random draws and the clock as inputs:
\* the state after the mutation (the function returns a copy of it)
simulateTick(state, pct, volInc, ts) ==
    LET newPrice == state.close_price + RoundDiv(state.close_price * pct, PCT_SCALE)
    IN  [state EXCEPT
           !.close_price = newPrice,
           !.high_price  = IF newPrice > state.high_price THEN newPrice ELSE state.high_price,
           !.low_price   = IF newPrice < state.low_price THEN newPrice ELSE state.low_price,
           !.volume      = state.volume + volInc,
           !.ts          = ts]

\* +((change / open) * 100).toFixed(4) in units of 1e-4, that is
\* round(change * 10^6 / open), by long division so that no intermediate
\* value leaves 32 bits
RECURSIVE ScaledDigits(_, _, _, _)
ScaledDigits(acc, rem, open, k) ==
    IF k = 0 THEN [q |-> acc, r |-> rem]
    ELSE ScaledDigits(acc * 10 + ((rem * 10) \div open), (rem * 10) % open, open, k - 1)

\* the percentage cut off after four decimals instead of rounded
PercentOf_Truncated(change, open) ==
    LET m == Abs(change)
        o == Abs(open)
        d == ScaledDigits(m \div o, m % o, o, 6)
    IN  IF (change < 0) = (open < 0) THEN d.q ELSE 0 - d.q

PercentOf(change, open) ==
    LET m  == Abs(change)
        o  == Abs(open)
        d  == ScaledDigits(m \div o, m % o, o, 6)
        up == IF 2 * d.r >= o THEN d.q + 1 ELSE d.q
    IN  IF (change < 0) = (open < 0) THEN up ELSE 0 - up

\* formatQuote(state) for an instrument state
formatQuote(state) ==
    LET last      == state.close_price
        change    == last - state.open_price
        changePct == IF state.open_price # 0 THEN PercentOf(change, state.open_price) ELSE 0
    IN  [symbol             |-> state.symbol,
         defined            |-> TRUE,
         last               |-> last,
         open               |-> state.open_price,
         high               |-> state.high_price,
         low                |-> state.low_price,
         volume             |-> state.volume,
         day_change         |-> change,
         day_change_percent |-> changePct,
         event_ts           |-> state.ts,
         currency           |-> "USD",
         source             |-> "simulator"]

\* formatQuote(instruments[k]) for an inherited key k: the object looked up
\* has none of the fields read, so symbol, last, open, high, low, volume and
\* event_ts are undefined, day_change is NaN and day_change_percent is 0.
\* `defined |-> FALSE` stands for the undefined and NaN fields.
ProtoQuote ==
    [symbol             |-> "undefined",
     defined            |-> FALSE,
     last               |-> 0,
     open               |-> 0,
     high               |-> 0,
     low                |-> 0,
     volume             |-> 0,
     day_change         |-> 0,
     day_change_percent |-> 0,
     event_ts           |-> 0,
     currency           |-> "USD",
     source             |-> "simulator"]

\* the truthiness of instruments[sym], line 166
LookupTruthy(sym) == sym \in Symbols \/ sym \in ProtoKeys

\* formatQuote(instruments[sym]) for a key that passed the filter, line 169
QuoteOf(table, sym) ==
    IF sym \in Symbols THEN formatQuote(table[sym]) ELSE ProtoQuote

---------------------------------------------------------------------------
(* The market gate *)

\* The host zones modelled, on the day 2025-03-09: a host on UTC, a host on
\* Indian time, and a host on US Eastern time, which moves its clocks
\* forward that day at 07:00 UTC.
HostZones == {"UTC", "Asia/Kolkata", "America/New_York"}

NY_DST_STARTS_AT == 7 * 60 * MS_PER_MINUTE

\* local time minus UTC, in minutes, of the zone at the instant
LocalOffsetMinutes(z, instant) ==
    CASE z = "UTC" -> 0
      [] z = "Asia/Kolkata" -> 330
      [] z = "America/New_York" -> IF instant < NY_DST_STARTS_AT THEN -300 ELSE -240

\* Date.prototype.getTimezoneOffset: UTC minus local time, in minutes
getTimezoneOffset(z, instant) == 0 - LocalOffsetMinutes(z, instant)

\* Date.prototype.getHours and getMinutes: the fields of the instant's local time
LocalMinuteOfDay(z, instant) ==
    ((instant \div MS_PER_MINUTE) + LocalOffsetMinutes(z, instant)) % MINUTES_PER_DAY

getHours(z, instant) == LocalMinuteOfDay(z, instant) \div 60

getMinutes(z, instant) == LocalMinuteOfDay(z, instant) % 60

\* nowInIST(): the Date (an instant) it returns
nowInIST(z, t) ==
    LET utcMillis == t + getTimezoneOffset(z, t) * MS_PER_MINUTE
    IN  utcMillis + IST_OFFSET_MINUTES * MS_PER_MINUTE

isMarketOpenIST(z, t) ==
    LET ist     == nowInIST(z, t)
        minutes == getHours(z, ist) * 60 + getMinutes(z, ist)
    IN  minutes >= OPEN_FROM_MINUTE /\ minutes < OPEN_UNTIL_MINUTE

---------------------------------------------------------------------------
(* The rate limiter *)

\* the window test of allowSendRate, line 81
\* a window that ends after half a second
WindowExpired_HalfSecond(meta, t) ==
    meta.lastWindowStart = 0 \/ t - meta.lastWindowStart > 500

WindowExpired(meta, t) ==
    meta.lastWindowStart = 0 \/ t - meta.lastWindowStart > RATE_WINDOW_MS

\* line 85 with > for >=
AtCap_OffByOne(count) == count > MAX_RATE_PER_SECOND

\* the cap test of allowSendRate, line 85
AtCap(count) == count >= MAX_RATE_PER_SECOND

\* allowSendRate(meta) called at instant t: the meta it leaves and its result
\* an admission that counts for two sends
allowSendRate_ChargesTwo(meta, t) ==
    LET m1 == IF WindowExpired(meta, t)
              THEN [meta EXCEPT !.lastWindowStart = t, !.sentInWindow = 0]
              ELSE meta
    IN  IF AtCap(m1.sentInWindow) THEN [meta |-> m1, ok |-> FALSE]
        ELSE [meta |-> [m1 EXCEPT !.sentInWindow = @ + 2], ok |-> TRUE]

allowSendRate(meta, t) ==
    LET m1 == IF WindowExpired(meta, t)
              THEN [meta EXCEPT !.lastWindowStart = t, !.sentInWindow = 0]
              ELSE meta
    IN  IF AtCap(m1.sentInWindow)
        THEN [meta |-> m1, ok |-> FALSE]
        ELSE [meta |-> [m1 EXCEPT !.sentInWindow = @ + 1], ok |-> TRUE]

---------------------------------------------------------------------------
(* Client payloads: the JavaScript value a client sent with an event.      *)
(* kind is its type, items the elements of an array (or the text of a      *)
(* string), n the length of a string or the value of a number.             *)

Undefined == [kind |-> "undefined", items |-> <<>>, n |-> 0]
Arr(items) == [kind |-> "array", items |-> items, n |-> Len(items)]
StrAAPL == [kind |-> "string", items |-> <<"AAPL">>, n |-> 4]
StrEmpty == [kind |-> "string", items |-> <<>>, n |-> 0]
NumFive == [kind |-> "number", items |-> <<>>, n |-> 5]
Obj == [kind |-> "object", items |-> <<>>, n |-> 0]

SubscribePayloads ==
    {Undefined, Arr(<<>>), Arr(<<"AAPL", "UNKNOWN">>), Arr(<<"TSLA", "MSFT">>),
     Arr(<<"UNKNOWN">>), Arr(<<"toString">>), StrAAPL, StrEmpty, NumFive, Obj}

UnsubscribePayloads ==
    {Undefined, Arr(<<>>), Arr(<<"AAPL">>), Arr(<<"MSFT", "UNKNOWN">>), StrAAPL}

\* !symbols
Falsy(p) ==
    \/ p.kind \in {"undefined", "null"}
    \/ p.kind = "string" /\ p.n = 0
    \/ p.kind = "number" /\ p.n = 0

\* symbols.length === 0, for a value that is not null or undefined
LengthIsZero(p) == p.kind \in {"array", "string"} /\ p.n = 0

\* Array.isArray(symbols); only an array has filter and forEach
IsArray(p) == p.kind = "array"

---------------------------------------------------------------------------
(* The subscription set: a JavaScript Set, which keeps insertion order *)

\* add on a list instead of a Set: the element is appended even if present
SetAdd_Append(s, x) == Append(s, x)

SetAdd(s, x) == IF x \in Range(s) THEN s ELSE Append(s, x)

RECURSIVE AddAll(_, _)
AddAll(s, items) ==
    IF items = <<>> THEN s ELSE AddAll(SetAdd(s, Head(items)), Tail(items))

SetDelete(s, x) == SelectSeq(s, LAMBDA y : y # x)

RECURSIVE DeleteAll(_, _)
DeleteAll(s, items) ==
    IF items = <<>> THEN s ELSE DeleteAll(SetDelete(s, Head(items)), Tail(items))

\* line 163 without the test of the length
SubscribesAll_FalsyOnly(p) == Falsy(p)

\* the branch test of the subscribe handler, line 163
SubscribesAll(p) == Falsy(p) \/ LengthIsZero(p)

\* symbols.filter(..) on a value that has no filter method is a TypeError
SubscribeThrows(p) == ~SubscribesAll(p) /\ ~IsArray(p)

\* the subscription set the subscribe handler builds after subs.clear(),
\* lines 162-167, when it does not throw
SubscribedSet(p) ==
    IF SubscribesAll(p) THEN SymbolList
    ELSE AddAll(<<>>, SelectSeq(p.items, LookupTruthy))

\* the snapshot of line 169
SnapshotOf(table, subs) == [i \in DOMAIN subs |-> QuoteOf(table, subs[i])]

\* line 175 without the Array.isArray test
UnsubscribeIgnored_FalsyOnly(p) == Falsy(p)

\* the guard of the unsubscribe handler, line 175
UnsubscribeIgnored(p) == Falsy(p) \/ ~IsArray(p)

\* line 176 clearing the set, as the subscribe handler does
UnsubscribedSet_Cleared(subs, p) == <<>>

\* the subscription set the unsubscribe handler leaves, line 176
UnsubscribedSet(subs, p) == DeleteAll(subs, p.items)

---------------------------------------------------------------------------
(* The broadcast loop *)

\* the order in which io.sockets.sockets.forEach visits the sockets
ConnList == <<"c1", "c2">>

\* What Math.random() returns during one cycle, as the values the code
\* derives from it: count is Math.floor(Math.random() * 4) of line 202, picks
\* the values of Math.floor(Math.random() * symbols.length) of line 205 in the
\* order drawn, pcts the values of randPct(0.004) in units of 1e-4 and vols the
\* volume increments of line 74, one per simulateTick call.
RandomSources ==
    {[count |-> 0, picks |-> <<2, 4, 4, 5>>,
      pcts |-> <<-40, 39, -1>>, vols |-> <<5000, 24999, 12000>>],
     [count |-> 3, picks |-> <<2, 1, 0, 0, 3, 19, 1, 9>>,
      pcts |-> <<39, -40, -40, 0, 1, 39>>, vols |-> <<5000, 6000, 7000, 8000, 9000, 24999>>]}

\* the while loop of lines 204-207 on the picks drawn: updateSymbols (a Set,
\* in insertion order) once the loop has ended or the picks have run out
RECURSIVE SelectLoop(_, _, _)
SelectLoop(updateSymbols, picks, count) ==
    IF ~(Len(updateSymbols) < count) \/ picks = <<>> THEN updateSymbols
    ELSE SelectLoop(SetAdd(updateSymbols, SymbolList[Head(picks) + 1]), Tail(picks), count)

\* line 209: the updates, each the copy simulateTick returns of the state it
\* has mutated
UpdatesOf(table, batch, rnd, t) ==
    [i \in DOMAIN batch |-> simulateTick(table[batch[i]], rnd.pcts[i], rnd.vols[i], t)]

\* a cycle that also stamps the instruments it did not select
Mutated_StampsAll(table, updates) ==
    [sym \in DOMAIN table |->
        IF \E i \in DOMAIN updates : updates[i].symbol = sym
        THEN updates[CHOOSE i \in DOMAIN updates : updates[i].symbol = sym]
        ELSE [table[sym] EXCEPT !.ts = updates[1].ts]]

\* line 209: the table after the mutations (the selected symbols are distinct)
Mutated(table, updates) ==
    [sym \in DOMAIN table |->
        IF \E i \in DOMAIN updates : updates[i].symbol = sym
        THEN updates[CHOOSE i \in DOMAIN updates : updates[i].symbol = sym]
        ELSE table[sym]]

\* line 213 without the filter on the socket's subscription set
Relevant_Unfiltered(meta, updates) == updates

\* line 213: the updates a socket is subscribed to
Relevant(meta, updates) ==
    SelectSeq(updates, LAMBDA u : u.symbol \in Range(meta.subs))

\* lines 212-214 for one socket: what is emitted to it, given the result of
\* its admission check
SocketUpdates(id, meta, admitted, updates) ==
    IF ~admitted THEN <<>>
    ELSE LET relevant == Relevant(meta, updates)
         IN  [i \in DOMAIN relevant |->
                 [to |-> id, event |-> "update", body |-> formatQuote(relevant[i])]]

\* lines 211-215: the messages of a cycle, socket after socket
RECURSIVE FanOut(_, _, _, _)
FanOut(socks, order, updates, t) ==
    IF order = <<>> THEN <<>>
    ELSE LET id == Head(order)
         IN  IF id \notin DOMAIN socks THEN FanOut(socks, Tail(order), updates, t)
             ELSE SocketUpdates(id, socks[id], allowSendRate(socks[id], t).ok, updates)
                  \o FanOut(socks, Tail(order), updates, t)

NoCycle == [ran |-> FALSE, open |-> FALSE, batch |-> <<>>, admitted |-> {}]

\* the meta recorded where there is no socket
NoMeta == [subs |-> <<>>, lastWindowStart |-> 0, sentInWindow |-> 0]

\* ev: the handler that ran last, the socket it ran for, the payload it was
\* given and that socket's meta as it was before the handler ran
Event(op, id, p) ==
    [op |-> op, conn |-> id, arg |-> p,
     before |-> IF id \in DOMAIN sockets THEN sockets[id] ELSE NoMeta]

NoEvent == [op |-> "none", conn |-> "-", arg |-> Undefined, before |-> NoMeta]

\* tick() with line 197 setting the timer of line 217: a closed cycle that
\* polls again after the broadcast period
TickBody_ClosedPollsAtBroadcastPeriod ==
    IF ~isMarketOpenIST(zone, now)
    THEN /\ timerDue' = now + BROADCAST_INTERVAL_MS
         /\ cycle' = [NoCycle EXCEPT !.ran = TRUE]
         /\ emitted' = <<>>
         /\ UNCHANGED <<instruments, sockets>>
    ELSE \E rnd \in RandomSources :
            LET count   == MIN_COUNT + rnd.count
                batch   == SelectLoop(<<>>, rnd.picks, count)
                updates == UpdatesOf(instruments, batch, rnd, now)
            IN  /\ Len(batch) = count
                /\ instruments' = Mutated(instruments, updates)
                /\ sockets' = [id \in DOMAIN sockets |-> allowSendRate(sockets[id], now).meta]
                /\ emitted' = FanOut(sockets, ConnList, updates, now)
                /\ cycle' = [ran |-> TRUE, open |-> TRUE, batch |-> batch,
                             admitted |-> {id \in DOMAIN sockets :
                                              allowSendRate(sockets[id], now).ok}]
                /\ timerDue' = now + BROADCAST_INTERVAL_MS

\* tick(): one run of the timer callback at the instant `now`
TickBody ==
    IF ~isMarketOpenIST(zone, now)
    THEN /\ timerDue' = now + CLOSED_POLL_MS
         /\ cycle' = [NoCycle EXCEPT !.ran = TRUE]
         /\ emitted' = <<>>
         /\ UNCHANGED <<instruments, sockets>>
    ELSE \E rnd \in RandomSources :
            LET count   == MIN_COUNT + rnd.count
                batch   == SelectLoop(<<>>, rnd.picks, count)
                updates == UpdatesOf(instruments, batch, rnd, now)
            IN  /\ Len(batch) = count
                /\ instruments' = Mutated(instruments, updates)
                /\ sockets' = [id \in DOMAIN sockets |-> allowSendRate(sockets[id], now).meta]
                /\ emitted' = FanOut(sockets, ConnList, updates, now)
                /\ cycle' = [ran |-> TRUE, open |-> TRUE, batch |-> batch,
                             admitted |-> {id \in DOMAIN sockets :
                                              allowSendRate(sockets[id], now).ok}]
                /\ timerDue' = now + BROADCAST_INTERVAL_MS

\* httpServer.listen's callback: startSimulation() runs the first tick
StartSimulation ==
    /\ ~started
    /\ started' = TRUE
    /\ TickBody
    /\ ev' = Event("start", "-", Undefined)
    /\ UNCHANGED <<now, zone, nticks, nevents, uncaught, hist>>

\* the timer set by setTimeout(tick, ..) fires
Tick ==
    /\ started
    /\ uncaught = "none"
    /\ nticks < MaxTicks
    /\ now >= timerDue
    /\ TickBody
    /\ nticks' = nticks + 1
    /\ ev' = Event("tick", "-", Undefined)
    /\ UNCHANGED <<now, zone, started, nevents, uncaught, hist>>

\* time passes until the pending timer is due (the timer is taken to fire
\* at its due time)
ClockAdvance ==
    /\ started
    /\ uncaught = "none"
    /\ now < timerDue
    /\ now' = timerDue
    /\ UNCHANGED <<zone, instruments, sockets, started, timerDue, nticks, nevents,
                   ev, emitted, cycle, uncaught, hist>>

---------------------------------------------------------------------------
(* The connection handlers *)

\* What every handler of a socket shares.  Nothing in the file catches an
\* exception that escapes a handler: once one has (uncaught), the process has
\* ended and no handler or timer runs again.
ClientEvent(op, id, p) ==
    /\ started
    /\ uncaught = "none"
    /\ nevents < MaxEvents
    /\ nevents' = nevents + 1
    /\ ev' = Event(op, id, p)
    /\ cycle' = NoCycle
    /\ UNCHANGED <<now, zone, instruments, started, timerDue, nticks, hist>>

\* io.on("connection"), lines 153-158
Connect(id) ==
    /\ id \notin DOMAIN sockets
    /\ ClientEvent("connection", id, Undefined)
    /\ sockets' = [k \in DOMAIN sockets \cup {id} |->
                     IF k = id
                     THEN [subs |-> <<>>, lastWindowStart |-> now, sentInWindow |-> 0]
                     ELSE sockets[k]]
    /\ emitted' = <<[to |-> id, event |-> "info", body |-> "Connected!"]>>
    /\ UNCHANGED uncaught

\* socket.on("subscribe"), lines 161-171
Subscribe(id, p) ==
    /\ id \in DOMAIN sockets
    /\ ClientEvent("subscribe", id, p)
    /\ IF SubscribeThrows(p)
       THEN /\ sockets' = [sockets EXCEPT ![id].subs = <<>>]
            /\ emitted' = <<>>
            /\ uncaught' = "TypeError"
       ELSE /\ sockets' = [sockets EXCEPT ![id].subs = SubscribedSet(p)]
            /\ emitted' = <<[to |-> id, event |-> "snapshot",
                             body |-> SnapshotOf(instruments, SubscribedSet(p))]>>
            /\ UNCHANGED uncaught

\* socket.on("unsubscribe"), lines 174-178
Unsubscribe(id, p) ==
    /\ id \in DOMAIN sockets
    /\ ClientEvent("unsubscribe", id, p)
    /\ IF UnsubscribeIgnored(p)
       THEN /\ emitted' = <<>>
            /\ UNCHANGED sockets
       ELSE /\ sockets' = [sockets EXCEPT ![id].subs = UnsubscribedSet(@, p)]
            /\ emitted' = <<[to |-> id, event |-> "info", body |-> p.items]>>
    /\ UNCHANGED uncaught

\* socket.on("ping"), lines 181-183
Ping(id) ==
    /\ id \in DOMAIN sockets
    /\ ClientEvent("ping", id, Undefined)
    /\ emitted' = <<[to |-> id, event |-> "pong", body |-> now]>>
    /\ UNCHANGED <<sockets, uncaught>>

\* a disconnect after which the socket is still in io.sockets.sockets
Disconnect_SocketKept(id) ==
    /\ id \in DOMAIN sockets
    /\ ClientEvent("disconnect", id, Undefined)
    /\ emitted' = <<>>
    /\ UNCHANGED <<sockets, uncaught>>

\* socket.on("disconnect"), lines 185-187: the socket has left
\* io.sockets.sockets, and its meta with it
Disconnect(id) ==
    /\ id \in DOMAIN sockets
    /\ ClientEvent("disconnect", id, Undefined)
    /\ sockets' = [k \in DOMAIN sockets \ {id} |-> sockets[k]]
    /\ emitted' = <<>>
    /\ UNCHANGED uncaught

---------------------------------------------------------------------------
(* The program *)

\* 09:59:30 IST, half a minute before the market opens, and 18:59:59.2 IST,
\* one broadcast period before it closes
StartTimes == {16170000, 48599200}

\* the zone of the host the server runs on
ServerZones == {"UTC"}

Init ==
    /\ now \in StartTimes
    /\ zone \in ServerZones
    /\ instruments = [sym \in Symbols |-> SeedState(sym, now)]
    /\ sockets = <<>>
    /\ started = FALSE
    /\ timerDue = now
    /\ nticks = 0
    /\ nevents = 0
    /\ ev = NoEvent
    /\ emitted = <<>>
    /\ cycle = NoCycle
    /\ uncaught = "none"
    /\ hist = <<>>

Next ==
    \/ StartSimulation
    \/ Tick
    \/ ClockAdvance
    \/ \E id \in ConnIds : Connect(id)
    \/ \E id \in ConnIds, p \in SubscribePayloads : Subscribe(id, p)
    \/ \E id \in ConnIds, p \in UnsubscribePayloads : Unsubscribe(id, p)
    \/ \E id \in ConnIds : Ping(id)
    \/ \E id \in ConnIds : Disconnect(id)

Spec == Init /\ [][Next]_vars

---------------------------------------------------------------------------
(* The instrument store on its own: simulateTick applied to the seed table *)
(* with any of the deltas, any number of times up to MaxSimTicks.  A run   *)
(* ticks one symbol (the ticks of different symbols do not interact).      *)

MaxSimTicks == 4

SeedTable(ts) == [sym \in Symbols |-> SeedState(sym, ts)]

InitTicks ==
    /\ now \in StartTimes
    /\ zone \in ServerZones
    /\ instruments = SeedTable(now)
    /\ sockets = <<>>
    /\ started = FALSE
    /\ timerDue = now
    /\ nticks = 0
    /\ nevents = 0
    /\ ev = NoEvent
    /\ emitted = <<>>
    /\ cycle = NoCycle
    /\ uncaught = "none"
    /\ hist = <<>>

SimulateOne(sym, pct, vol) ==
    /\ nticks < MaxSimTicks
    /\ \A other \in Symbols \ {sym} : instruments[other] = SeedState(other, instruments[other].ts)
    /\ instruments' = [instruments EXCEPT ![sym] = simulateTick(@, pct, vol, now)]
    /\ nticks' = nticks + 1
    /\ ev' = Event("simulateTick", sym, Undefined)
    /\ UNCHANGED <<now, zone, sockets, started, timerDue, nevents, emitted, cycle,
                   uncaught, hist>>

NextTicks == \E sym \in Symbols, pct \in PctChoices, vol \in VolChoices : SimulateOne(sym, pct, vol)

SpecTicks == InitTicks /\ [][NextTicks]_vars

---------------------------------------------------------------------------
(* The rate limiter on its own: admission checks on one socket at any      *)
(* non-decreasing instants.  hist observes the checks by the rule of the   *)
(* window: w is the instant the current window began, n the checks made in *)
(* it, ok the result of the last check, t its instant, reset whether it    *)
(* began a new window, denied whether any check so far was denied, t0 the  *)
(* instant the socket connected.                                           *)

MaxRateSpan == 3100
MaxOver == 2

RateSteps == {500, 1000, 1001}

InitRate ==
    /\ now \in StartTimes
    /\ zone \in ServerZones
    /\ instruments = SeedTable(now)
    /\ sockets = [id \in {"c1"} |-> [subs |-> <<>>, lastWindowStart |-> now, sentInWindow |-> 0]]
    /\ started = TRUE
    /\ timerDue = now
    /\ nticks = 0
    /\ nevents = 0
    /\ ev = NoEvent
    /\ emitted = <<>>
    /\ cycle = NoCycle
    /\ uncaught = "none"
    /\ hist = [w |-> now, n |-> 0, ok |-> TRUE, t |-> now, reset |-> FALSE,
               denied |-> FALSE, t0 |-> now]

RateWait(d) ==
    /\ now + d <= hist.t0 + MaxRateSpan
    /\ now' = now + d
    /\ UNCHANGED <<zone, instruments, sockets, started, timerDue, nticks, nevents,
                   ev, emitted, cycle, uncaught, hist>>

RateCheck(id) ==
    LET r       == allowSendRate(sockets[id], now)
        expired == now - hist.w > RATE_WINDOW_MS
    IN  /\ expired \/ hist.n < MAX_RATE_PER_SECOND + MaxOver
        /\ sockets' = [sockets EXCEPT ![id] = r.meta]
        /\ hist' = [hist EXCEPT !.w = IF expired THEN now ELSE @,
                                !.n = IF expired THEN 1 ELSE @ + 1,
                                !.ok = r.ok,
                                !.t = now,
                                !.reset = expired,
                                !.denied = @ \/ ~r.ok]
        /\ ev' = Event("allowSendRate", id, Undefined)
        /\ UNCHANGED <<now, zone, instruments, started, timerDue, nticks, nevents,
                       emitted, cycle, uncaught>>

NextRate ==
    \/ \E d \in RateSteps : RateWait(d)
    \/ RateCheck("c1")

SpecRate == InitRate /\ [][NextRate]_vars

---------------------------------------------------------------------------
(* The rate limiter under bursts: runs of admission checks made at one     *)
(* instant, with waits between them.  hist.log observes the admissions of  *)
(* the last 1000 ms: a sequence of [t, n], n checks admitted at instant t. *)

MaxWaits == 4
MaxBursts == 6

\* the number of checks made in one run
BurstSizes == {10}

BurstSteps == {1, 500, 1000}

\* n calls of allowSendRate(meta) at the instant t: the meta after them and
\* how many returned true
RECURSIVE Calls(_, _, _)
Calls(meta, t, n) ==
    IF n = 0 THEN [meta |-> meta, admitted |-> 0]
    ELSE LET r == allowSendRate(meta, t)
         IN  IF r.ok
             THEN LET rest == Calls(r.meta, t, n - 1)
                  IN  [meta |-> rest.meta, admitted |-> rest.admitted + 1]
             ELSE Calls(r.meta, t, n - 1)

RECURSIVE SumLog(_)
SumLog(log) == IF log = <<>> THEN 0 ELSE Head(log).n + SumLog(Tail(log))

InitBurst ==
    /\ zone \in ServerZones
    /\ now \in {t \in StartTimes : isMarketOpenIST(zone, t)}
    /\ instruments = SeedTable(now)
    /\ sockets = [id \in {"c1"} |-> [subs |-> <<>>, lastWindowStart |-> now, sentInWindow |-> 0]]
    /\ started = TRUE
    /\ timerDue = now
    /\ nticks = 0
    /\ nevents = 0
    /\ ev = NoEvent
    /\ emitted = <<>>
    /\ cycle = NoCycle
    /\ uncaught = "none"
    /\ hist = [waits |-> 0, bursts |-> 0, log |-> <<>>]

\* time passes; the admissions more than 1000 ms old leave the log
BurstWait(d) ==
    /\ hist.waits < MaxWaits
    /\ now' = now + d
    /\ hist' = [waits |-> hist.waits + 1, bursts |-> 0,
                log |-> SelectSeq(hist.log, LAMBDA e : e.t >= now + d - 1000)]
    /\ UNCHANGED <<zone, instruments, sockets, started, timerDue, nticks, nevents,
                   ev, emitted, cycle, uncaught>>

BurstCheck(id, n) ==
    LET r == Calls(sockets[id], now, n)
    IN  /\ hist.bursts < MaxBursts
        /\ sockets' = [sockets EXCEPT ![id] = r.meta]
        /\ hist' = [hist EXCEPT !.bursts = @ + 1,
                                !.log = IF r.admitted = 0 THEN @
                                        ELSE IF @ # <<>> /\ @[Len(@)].t = now
                                        THEN [@ EXCEPT ![Len(@)].n = @ + r.admitted]
                                        ELSE Append(@, [t |-> now, n |-> r.admitted])]
        /\ ev' = Event("allowSendRate", id, Undefined)
        /\ UNCHANGED <<now, zone, instruments, started, timerDue, nticks, nevents,
                       emitted, cycle, uncaught>>

NextBurst ==
    \/ \E d \in BurstSteps : BurstWait(d)
    \/ \E n \in BurstSizes : BurstCheck("c1", n)

SpecBurst == InitBurst /\ [][NextBurst]_vars

---------------------------------------------------------------------------
(* The market gate on its own: the gate polled at every minute of the day  *)
(* on a host in each of the zones.                                         *)

InitGate ==
    /\ now = 0
    /\ zone \in HostZones
    /\ instruments = SeedTable(now)
    /\ sockets = <<>>
    /\ started = TRUE
    /\ timerDue = now
    /\ nticks = 0
    /\ nevents = 0
    /\ ev = NoEvent
    /\ emitted = <<>>
    /\ cycle = NoCycle
    /\ uncaught = "none"
    /\ hist = <<>>

GateWait ==
    /\ now + MS_PER_MINUTE < MINUTES_PER_DAY * MS_PER_MINUTE
    /\ now' = now + MS_PER_MINUTE
    /\ cycle' = NoCycle
    /\ UNCHANGED <<zone, instruments, sockets, started, timerDue, nticks, nevents,
                   ev, emitted, uncaught, hist>>

\* the test of line 196
GatePoll ==
    /\ ~cycle.ran
    /\ cycle' = [NoCycle EXCEPT !.ran = TRUE, !.open = isMarketOpenIST(zone, now)]
    /\ ev' = Event("isMarketOpenIST", "-", Undefined)
    /\ UNCHANGED <<now, zone, instruments, sockets, started, timerDue, nticks, nevents,
                   emitted, uncaught, hist>>

NextGate == GateWait \/ GatePoll

SpecGate == InitGate /\ [][NextGate]_vars

---------------------------------------------------------------------------
(* The broadcast loop on its own: the timer callback run over two sockets  *)
(* whose subscription sets and rate windows are drawn from small sets,     *)
(* among them a window that is already full.  (With cycles 800 ms apart    *)
(* and a clock that only moves forward a window holds at most two sends;   *)
(* it fills only when Date.now(), the host's wall clock, is set back.)     *)

SubsChoices == {<<"AAPL">>, <<"TSLA", "MSFT">>, SymbolList}

CountChoices == {0, MAX_RATE_PER_SECOND - 1, MAX_RATE_PER_SECOND}

InitFanOut ==
    /\ now \in StartTimes
    /\ zone \in ServerZones
    /\ instruments = SeedTable(now)
    /\ sockets \in [ConnIds -> [subs : SubsChoices, lastWindowStart : {now},
                                sentInWindow : CountChoices]]
    /\ started = TRUE
    /\ timerDue = now
    /\ nticks = 0
    /\ nevents = 0
    /\ ev = NoEvent
    /\ emitted = <<>>
    /\ cycle = NoCycle
    /\ uncaught = "none"
    /\ hist = <<>>

NextFanOut == Tick \/ ClockAdvance

SpecFanOut == InitFanOut /\ [][NextFanOut]_vars

---------------------------------------------------------------------------
(* The selection loop of lines 201-207 on its own, one draw of             *)
(* Math.random() at a time.  cycle.batch is updateSymbols; hist holds the  *)
(* count drawn at line 202, whether the loop has ended and whether a draw  *)
(* has repeated a symbol already chosen.  The picks are drawn from some of *)
(* the universe, more symbols than the largest count.                      *)

\* the values of Math.floor(Math.random() * 4), line 202
CountDraws == 0..3

\* the values drawn of Math.floor(Math.random() * symbols.length), line 205
PickDraws == {0, 1, 2, 3, 4, 5, 19}

InitSelect ==
    /\ zone \in ServerZones
    /\ now \in {t \in StartTimes : isMarketOpenIST(zone, t)}
    /\ instruments = SeedTable(now)
    /\ sockets = <<>>
    /\ started = TRUE
    /\ timerDue = now
    /\ nticks = 0
    /\ nevents = 0
    /\ ev = NoEvent
    /\ emitted = <<>>
    /\ cycle = NoCycle
    /\ uncaught = "none"
    /\ hist = [count |-> 0, done |-> TRUE, repicked |-> FALSE]

\* lines 202-203: the count is drawn and updateSymbols is a new, empty Set
SelectBegin(c) ==
    /\ hist.done
    /\ hist' = [count |-> MIN_COUNT + c, done |-> FALSE, repicked |-> FALSE]
    /\ cycle' = [NoCycle EXCEPT !.open = TRUE]
    /\ ev' = Event("select", "-", Undefined)
    /\ UNCHANGED <<now, zone, instruments, sockets, started, timerDue, nticks, nevents,
                   emitted, uncaught>>

\* lines 204-206: the loop test holds and the body adds the symbol drawn
SelectPick(k) ==
    /\ ~hist.done
    /\ Len(cycle.batch) < hist.count
    /\ cycle' = [cycle EXCEPT !.batch = SetAdd(@, SymbolList[k + 1])]
    /\ hist' = [hist EXCEPT !.repicked = @ \/ SymbolList[k + 1] \in Range(cycle.batch)]
    /\ UNCHANGED <<now, zone, instruments, sockets, started, timerDue, nticks, nevents,
                   ev, emitted, uncaught>>

\* line 204: the loop test fails and the loop is left
SelectEnd ==
    /\ ~hist.done
    /\ ~(Len(cycle.batch) < hist.count)
    /\ hist' = [hist EXCEPT !.done = TRUE]
    /\ cycle' = [cycle EXCEPT !.ran = TRUE]
    /\ UNCHANGED <<now, zone, instruments, sockets, started, timerDue, nticks, nevents,
                   ev, emitted, uncaught>>

NextSelect ==
    \/ \E c \in CountDraws : SelectBegin(c)
    \/ \E k \in PickDraws : SelectPick(k)
    \/ SelectEnd

\* a draw that adds a symbol
SelectFresh == \E k \in PickDraws : SelectPick(k) /\ cycle'.batch # cycle.batch

\* Math.random() does not repeat the symbols already chosen for ever: while
\* the loop runs, a draw that adds a symbol comes
SpecSelect ==
    /\ InitSelect
    /\ [][NextSelect]_vars
    /\ WF_vars(SelectFresh)
    /\ WF_vars(SelectEnd)

---------------------------------------------------------------------------
(* Properties *)

\* what the last handler emitted to a socket
MsgsTo(id) == SelectSeq(emitted, LAMBDA m : m.to = id)

\* the last step was a broadcast cycle that found the market open
OpenCycle == ev.op \in {"start", "tick"} /\ cycle.ran /\ cycle.open

\* the last step was the named handler, run for a socket
Handled(op) == ev.op = op /\ ev.conn \in ConnIds

\* the symbols of a cycle's batch a socket is subscribed to
Matching(id) == Range(cycle.batch) \cap Range(sockets[id].subs)

\* C1: in an open broadcast cycle every socket the rate limiter admitted is
\* sent update messages only, exactly one for each symbol that is both in the
\* cycle's batch and in its subscription set, each with last equal to the
\* instrument's close after the cycle's mutation, and none for any other
\* symbol; a socket the limiter denied is sent nothing.
C1_FanOutMatchesSubscriptions ==
    OpenCycle =>
        \A id \in ConnIds :
            IF id \in DOMAIN sockets /\ id \in cycle.admitted
            THEN LET msgs == MsgsTo(id)
                 IN  /\ \A i \in DOMAIN msgs :
                            /\ msgs[i].event = "update"
                            /\ msgs[i].body.symbol \in Matching(id)
                            /\ msgs[i].body.last = instruments[msgs[i].body.symbol].close_price
                     /\ \A sym \in Matching(id) :
                            Cardinality({i \in DOMAIN msgs : msgs[i].body.symbol = sym}) = 1
            ELSE MsgsTo(id) = <<>>

\* C1 witness: a cycle in which c1 was admitted and sent an update although
\* the batch also held a symbol it is not subscribed to, and c2 was denied
C1_Witness ==
    /\ OpenCycle
    /\ "c1" \in cycle.admitted
    /\ "c2" \in DOMAIN sockets /\ "c2" \notin cycle.admitted
    /\ Matching("c2") # {}
    /\ MsgsTo("c1") # <<>>
    /\ Range(cycle.batch) \ Range(sockets["c1"].subs) # {}

\* a subscribe payload that is absent or an empty list
EmptyOrAbsent(p) == p.kind = "undefined" \/ (p.kind = "array" /\ p.items = <<>>)

\* C2: after a subscribe whose payload is an empty list or absent, the
\* socket's subscription set is the whole symbol universe, whatever it was
\* before.
C2_EmptySubscribeIsAll ==
    (Handled("subscribe") /\ EmptyOrAbsent(ev.arg)) =>
        /\ ev.conn \in DOMAIN sockets
        /\ Range(sockets[ev.conn].subs) = Symbols

\* C2 witness: an empty list subscribed by a socket that held a proper
\* subset of the universe
C2_Witness ==
    /\ Handled("subscribe")
    /\ ev.arg = Arr(<<>>)
    /\ ev.before.subs = <<"TSLA", "MSFT">>
    /\ Range(sockets[ev.conn].subs) = Symbols

\* C3 (as claimed): after a subscribe with a non-empty list L the socket's
\* subscription set is exactly the symbols of L that are in the universe.
C3_ListSubscribeIsIntersection ==
    (Handled("subscribe") /\ ev.arg.kind = "array" /\ ev.arg.items # <<>>) =>
        /\ ev.conn \in DOMAIN sockets
        /\ Range(sockets[ev.conn].subs) = Range(ev.arg.items) \cap Symbols

\* C4 (as claimed): a subscribe whose payload is present but not a list
\* subscribes the socket to the whole universe and emits a snapshot to it.
C4_NonListSubscribeIsAll ==
    (Handled("subscribe") /\ ev.arg.kind \notin {"undefined", "array"}) =>
        /\ ev.conn \in DOMAIN sockets
        /\ Range(sockets[ev.conn].subs) = Symbols
        /\ \E i \in DOMAIN emitted : emitted[i].to = ev.conn /\ emitted[i].event = "snapshot"

\* C5 (as claimed): no inbound message of a socket raises an error; after
\* any of them the socket is live and no exception has escaped a handler.
C5_NoErrorFromClientInput ==
    /\ uncaught = "none"
    /\ (ev.op \in {"subscribe", "unsubscribe", "ping"}) => ev.conn \in DOMAIN sockets

\* C6: after an unsubscribe with a list L the socket's subscription set is
\* its previous set without the symbols of L.
C6_UnsubscribeRemovesListed ==
    (Handled("unsubscribe") /\ ev.arg.kind = "array") =>
        /\ ev.conn \in DOMAIN sockets
        /\ Range(sockets[ev.conn].subs) = Range(ev.before.subs) \ Range(ev.arg.items)

\* C6 witness: a list with a subscribed and an unrecognized symbol, taken
\* from a set that keeps another symbol
C6_Witness ==
    /\ Handled("unsubscribe")
    /\ ev.arg = Arr(<<"MSFT", "UNKNOWN">>)
    /\ ev.before.subs = <<"TSLA", "MSFT">>
    /\ sockets[ev.conn].subs = <<"TSLA">>

\* C7: an unsubscribe whose payload is absent or not a list changes neither
\* the socket's subscription set nor its rate window, raises no error and
\* emits nothing.
C7_MalformedUnsubscribeIsNoOp ==
    (Handled("unsubscribe") /\ ev.arg.kind # "array") =>
        /\ ev.conn \in DOMAIN sockets
        /\ sockets[ev.conn] = ev.before
        /\ emitted = <<>>
        /\ uncaught = "none"

\* C7 witness: a string sent to unsubscribe by a socket with subscriptions
C7_Witness ==
    /\ Handled("unsubscribe")
    /\ ev.arg = StrAAPL
    /\ ev.before.subs # <<>>
    /\ emitted = <<>>

\* C8: of the admission checks made in one rate window exactly the first
\* MAX_RATE_PER_SECOND are admitted and every later one is denied; a check
\* more than 1000 ms after the window began begins a new window at its own
\* instant and is itself admitted (the window's first send).
C8_WindowAdmitsExactlyCap ==
    Handled("allowSendRate") =>
        LET meta == sockets[ev.conn]
        IN  /\ hist.ok <=> hist.n <= MAX_RATE_PER_SECOND
            /\ meta.lastWindowStart = hist.w
            /\ meta.sentInWindow = IF hist.n <= MAX_RATE_PER_SECOND THEN hist.n
                                   ELSE MAX_RATE_PER_SECOND
            /\ hist.reset => /\ hist.ok
                             /\ meta.lastWindowStart = hist.t
                             /\ meta.sentInWindow = 1

\* C8 witness: a check that began a new window, and was admitted, after a
\* window in which checks were denied
C8_Witness ==
    /\ Handled("allowSendRate")
    /\ hist.reset
    /\ hist.denied
    /\ hist.ok

\* minutes since midnight, at UTC+5:30, of an instant
ISTMinuteOfDay(t) == ((t \div MS_PER_MINUTE) + IST_OFFSET_MINUTES) % MINUTES_PER_DAY

\* C9 (as claimed): the market gate is open exactly when the minutes since
\* midnight at UTC+5:30 of the current instant lie in [600, 1140).
C9_GateFollowsISTMinutes ==
    (ev.op = "isMarketOpenIST" /\ cycle.ran) =>
        (cycle.open <=> (ISTMinuteOfDay(now) >= 600 /\ ISTMinuteOfDay(now) < 1140))

\* C10: every instrument has low <= close <= high and low <= open <= high, at
\* the start and after any ticks.
C10_PriceEnvelope ==
    \A sym \in DOMAIN instruments :
        LET st == instruments[sym]
        IN  /\ st.low_price <= st.close_price /\ st.close_price <= st.high_price
            /\ st.low_price <= st.open_price /\ st.open_price <= st.high_price

\* C10 witness: ticks have taken an instrument's close below its seed low
C10_Witness ==
    \E sym \in DOMAIN instruments :
        /\ instruments[sym].low_price < BASE_OHLC[sym].low
        /\ instruments[sym].close_price = instruments[sym].low_price

\* the step is a run of tick(): the first, made by startSimulation, or one
\* made by the timer
CycleStep == (~started /\ started') \/ (started /\ nticks' = nticks + 1)

\* C11: every cycle takes the branch the market gate gives at the cycle's
\* own instant; a cycle that finds the gate closed changes no instrument,
\* sends nothing and sets the next poll 30 s later; a cycle that finds it
\* open sets the next cycle 800 ms later.
C11_ClosedCycleIsIdle ==
    [][CycleStep =>
          /\ cycle'.ran
          /\ cycle'.open = isMarketOpenIST(zone, now)
          /\ IF cycle'.open
             THEN timerDue' = now + 800
             ELSE /\ instruments' = instruments
                  /\ emitted' = <<>>
                  /\ timerDue' = now + 30000]_vars

\* C11 witness: a cycle that found the gate closed although the cycle before
\* it found it open (an instrument has been ticked), while a socket with
\* subscriptions was connected
C11_Witness ==
    /\ ev.op = "tick" /\ cycle.ran /\ ~cycle.open
    /\ emitted = <<>>
    /\ timerDue = now + 30000
    /\ \E sym \in Symbols : instruments[sym].volume # BASE_OHLC[sym].volume
    /\ \E id \in DOMAIN sockets : sockets[id].subs # <<>>

\* C11 witness of the other change of the gate: a cycle that found the gate
\* open after a cycle that found it closed
C11_WitnessReopened ==
    /\ ev.op = "tick" /\ cycle.ran /\ cycle.open
    /\ nticks = 1
    /\ \A sym \in Symbols : sym \notin Range(cycle.batch) => instruments[sym].volume = BASE_OHLC[sym].volume
    /\ timerDue = now + 800

\* C12: a socket that has disconnected is no longer among the sockets the
\* broadcast loop visits, and its subscription set and rate window have gone
\* with it; no handler and no cycle emits a message to a socket that is not
\* among them, so no later cycle sends anything to it.
C12_NothingSentAfterDisconnect ==
    /\ Handled("disconnect") => ev.conn \notin DOMAIN sockets
    /\ \A i \in DOMAIN emitted : emitted[i].to \in DOMAIN sockets
    /\ cycle.admitted \subseteq DOMAIN sockets

\* C12 witness: an open cycle that ran after the only socket had connected,
\* sent a message of its own and disconnected, and that sent nothing
C12_Witness ==
    /\ OpenCycle
    /\ ev.op = "tick"
    /\ nevents = 3
    /\ DOMAIN sockets = {}
    /\ emitted = <<>>


\* C13 (as claimed): every subscribe is answered with exactly one message, a
\* snapshot to the subscribing socket that holds exactly one Quote for each
\* symbol of the resulting subscription set and none for any other, each
\* formatted from the instrument's state at that time; the socket's rate
\* window is as it was before.
C13_SubscribeAnsweredBySnapshot ==
    Handled("subscribe") =>
        /\ ev.conn \in DOMAIN sockets
        /\ Len(emitted) = 1
        /\ emitted[1].to = ev.conn
        /\ emitted[1].event = "snapshot"
        /\ LET body == emitted[1].body
               subs == sockets[ev.conn].subs
           IN  /\ Len(body) = Len(subs)
               /\ {body[i].symbol : i \in DOMAIN body} = Range(subs)
               /\ \A i \in DOMAIN body :
                      /\ body[i].symbol \in Symbols
                      /\ body[i] = formatQuote(instruments[body[i].symbol])
        /\ sockets[ev.conn].lastWindowStart = ev.before.lastWindowStart
        /\ sockets[ev.conn].sentInWindow = ev.before.sentInWindow


\* the Quotes in the messages of the last handler: the bodies of its updates
\* and the entries of its snapshot
EmittedQuotes ==
    UNION {IF emitted[i].event = "update" THEN {emitted[i].body}
           ELSE IF emitted[i].event = "snapshot" THEN Range(emitted[i].body)
           ELSE {} : i \in DOMAIN emitted}

\* |q.day_change| * 10^6 divided by q.open (q.open > 0), as quotient and
\* remainder: day_change / open * 100 in units of 1e-4 is q + r / open
ExactPercentOf(q) ==
    ScaledDigits(Abs(q.day_change) \div q.open, Abs(q.day_change) % q.open, q.open, 6)

\* C14 (as claimed): every Quote sent has day_change = last - open and
\* day_change_percent exactly day_change / open * 100, or 0 when open is 0.
C14_DayChangeExact ==
    \A q \in EmittedQuotes :
        /\ q.defined
        /\ q.day_change = q.last - q.open
        /\ IF q.open = 0 THEN q.day_change_percent = 0
           ELSE /\ ExactPercentOf(q).r = 0
                /\ Abs(q.day_change_percent) = ExactPercentOf(q).q
                /\ (q.day_change_percent < 0) => (q.day_change < 0)

\* C14 (amended): every Quote formatted from an instrument has day_change =
\* last - open and day_change_percent equal to day_change / open * 100
\* rounded to the nearest multiple of 0.0001 (0 when open is 0); the Quote
\* formatted from an inherited key (see C3) has no numbers to subtract, and
\* its day_change_percent is 0.
C14_DayChangeRounded ==
    \A q \in EmittedQuotes :
        IF ~q.defined THEN q.day_change_percent = 0
        ELSE /\ q.day_change = q.last - q.open
             /\ IF q.open = 0 THEN q.day_change_percent = 0
                ELSE LET d == ExactPercentOf(q)
                         p == Abs(q.day_change_percent)
                     IN  /\ p \in {d.q, d.q + 1}
                         /\ (p = d.q) => 2 * d.r <= q.open
                         /\ (p = d.q + 1) => 2 * d.r >= q.open
                         /\ (q.day_change_percent < 0) => (q.day_change < 0)
                         /\ (q.day_change_percent > 0) => (q.day_change > 0)

\* C14 witness: a message with a Quote whose percentage was rounded up and
\* a Quote whose percentage was rounded down
C14_Witness ==
    /\ \E q \in EmittedQuotes :
           /\ q.defined
           /\ ExactPercentOf(q).r # 0
           /\ Abs(q.day_change_percent) = ExactPercentOf(q).q + 1
    /\ \E q \in EmittedQuotes :
           /\ q.defined
           /\ ExactPercentOf(q).r # 0
           /\ Abs(q.day_change_percent) = ExactPercentOf(q).q


\* C15 (as claimed): once started the broadcast loop never stops: at every
\* moment the next run of tick is pending, that is, its timer is due and can
\* fire or time can pass until it is due (up to the MaxTicks runs modelled).
C15_NextTickAlwaysPending ==
    (started /\ nticks < MaxTicks) => ENABLED (Tick \/ ClockAdvance)


\* C16: the selection loop of an open cycle ends, and when it has ended the
\* batch holds between 3 and 6 symbols, as many as the count drawn, all
\* distinct and all of the universe (so no instrument is ticked twice in a
\* cycle); while it runs the batch never holds more.
C16_SelectionEndsWithDistinctBatch ==
    /\ [](ev.op = "select" =>
             /\ Len(cycle.batch) <= hist.count
             /\ hist.count \in 3..6
             /\ Cardinality(Range(cycle.batch)) = Len(cycle.batch)
             /\ Range(cycle.batch) \subseteq Symbols
             /\ hist.done => Len(cycle.batch) = hist.count)
    /\ [](~hist.done => <>hist.done)

\* C16 witness: a loop that has ended with six symbols after a draw that
\* repeated a symbol already chosen
C16_Witness ==
    /\ ev.op = "select"
    /\ hist.done
    /\ cycle.ran
    /\ hist.repicked
    /\ Len(cycle.batch) = 6


\* C17: a step that is not an open broadcast cycle (a connection, subscribe,
\* unsubscribe, ping or disconnect handler, a closed cycle, the passing of
\* time) leaves every instrument as it was; an open cycle changes only
\* instruments of its batch; no step changes the open price or the symbol
\* of an instrument.
C17_OnlyOpenCyclesTickSelected ==
    [][/\ (~CycleStep \/ ~cycle'.open) => instruments' = instruments
       /\ \A sym \in Symbols :
              /\ instruments'[sym] # instruments[sym] => sym \in Range(cycle'.batch)
              /\ instruments'[sym].open_price = instruments[sym].open_price
              /\ instruments'[sym].symbol = sym]_vars

\* C17 witness: an open cycle, run after client handlers, that has moved
\* the close of a selected instrument and has left an unselected instrument
\* as it was seeded at load, before the cycle's instant
C17_Witness ==
    /\ OpenCycle
    /\ nevents > 0
    /\ \E sym \in Range(cycle.batch) :
           /\ instruments[sym].close_price # BASE_OHLC[sym].close
           /\ instruments[sym].ts = now
    /\ \E sym \in Symbols \ Range(cycle.batch) :
           /\ instruments[sym].ts < now
           /\ instruments[sym] = SeedState(sym, instruments[sym].ts)


\* C18: the admission checks of a socket admitted within any span of
\* 1000 ms never number more than 2 * MAX_RATE_PER_SECOND (100): the log
\* holds the admissions of the 1000 ms up to the current instant.
C18_AtMostTwiceCapPerSecond ==
    /\ \A i \in DOMAIN hist.log : hist.log[i].t >= now - 1000 /\ hist.log[i].t <= now
    /\ SumLog(hist.log) <= 100

\* C18 witness: 100 admissions within 1000 ms, 50 at the end of one window
\* and 50 at the start of the next
C18_Witness ==
    /\ Len(hist.log) = 2
    /\ hist.log[1].n = 50
    /\ hist.log[2].n = 50
    /\ hist.log[2].t - hist.log[1].t < 1000
    /\ hist.log[1].t < sockets["c1"].lastWindowStart
    /\ hist.log[2].t = sockets["c1"].lastWindowStart


\* C19 (as claimed): at all times the subscription set of every socket is a
\* subset of the symbol universe, whatever the sockets have subscribed to.
C19_SubscriptionsWithinUniverse ==
    \A id \in DOMAIN sockets : Range(sockets[id].subs) \subseteq Symbols


=============================================================================
